---- MODULE Spec2Model ----
(***************************************************************************)
(* Reply acquisition and synchronized delivery of the SAIYAARA assistant:  *)
(* think() of backend/brain.py (endpoint chain, bounded retry, history      *)
(* window) together with the speech job and playback task of backend/tts.py *)
(* and the caller's conversation_history of main.py.                        *)
(***************************************************************************)
EXTENDS Integers, Sequences, FiniteSets, TLC

\* ---------------------------------------------------------------- bounds
MaxCalls == 2        \* think() invocations explored in one process
MaxLoadPairs == 9    \* me/saiyaara pairs of the largest saved chat that is loaded
MaxLoads == 1        \* saved chats loaded in one process
MaxTextLen == 3      \* characters of the longest arbitrary text given to the sanitizer
MaxSessions == 2     \* saiyaara.py: sessions ended by a quit word in one process
MaxTurns == 10       \* turns of the longest history saved with its roles in any order

\* ------------------------------------------------------ program constants
NumModels == 3                    \* len(MODELS)
max_retries == 3
wait_times == <<10, 20, 40>>
SaiyaaraWaitTimes == <<15, 30, 60>>   \* wait_times of think() in saiyaara.py
MAX_HISTORY == 20
max_failed_attempts == 3          \* saiyaara.py, main()
SleepSlice == 5                   \* time.sleep(5) and the -5 stride of the countdown

TroubleMsg == "Sorry, I'm having some trouble right now. Can you try again?"
ExhaustedMsg == "I've used up all available models for today. Quota resets at midnight"
ReplyMsg == "clean_response"

\* str(e) of the exceptions the try block of think() can see
ErrRate429 == "Error code: 429"
ErrRateLimit == "Rate_Limit_Exceeded"
ErrOther == "Connection error."
ErrNoneWait == "'NoneType' object has no attribute 'wait'"
KeyboardInterrupt == "KeyboardInterrupt"
EndpointErrors == {ErrRate429, ErrRateLimit, ErrOther}

\* what an endpoint call did, as the call log records it
Outcome(r) ==
    IF r = "ok" THEN "ok"
    ELSE IF r \in {ErrRate429, ErrRateLimit} THEN "rate_limit"
    ELSE IF r = KeyboardInterrupt THEN "interrupted"
    ELSE "other"

VARIABLES
    current_model_index,   \* the chain cursor (module global of brain.py)
    conversation_history,  \* the caller's list (module global of main.py)
    hist,                  \* think()'s local name conversation_history
    aliased,               \* TRUE while hist is the caller's list object
    pc,                    \* position of the main thread
    model_name,            \* index in MODELS of the endpoint the retry loop uses
    attempt,               \* loop variable of the retry loop
    ai_response,           \* text returned by the last think()
    tts_job,               \* "unset", "job" (file and event) or "None" (None, None)
    tts_ready,             \* the threading.Event of the speech job
    fileState,             \* the temporary mp3: none, empty, partial, audio, deleted
    synthPc,               \* generate_speech_background thread
    playPc,                \* play_pregenerated thread
    displayed,             \* characters emitted by slow_display
    nCalls,                \* think() invocations so far
    nLoads,                \* saved chats loaded so far
    nextId,                \* text of the next turn (turn texts are numbered)
    transcript,            \* every turn of the conversation that was not retracted
    callLog,               \* endpoint calls of the current think(): endpoint and outcome
    sleepLog,              \* backoff pauses of the current think(): endpoint and seconds
    advances,              \* cursor advances made by the current think()
    startCursor,           \* cursor when the current think() began
    userTurn,              \* the user turn appended by the current think()
    waitTimedOut,          \* tts_ready.wait(timeout=10) of this think() timed out
    stream,                \* the tokens of the stream the endpoint call returned
    streamPos,             \* tokens of the stream consumed so far
    full_response,         \* the text assembled from the stream
    clean_response,        \* clean_text_for_speech(full_response)
    histBefore,            \* the history the current think() was called with
    playResult,            \* what play_pregenerated did: none, noop, played, error
    saved,                 \* the histories handed to save_chat_history, in order
    tts_text,              \* the text handed to start_tts_generation in this think()
    interrupted,           \* Ctrl+C was pressed during a think()
    failed_attempts,       \* saiyaara.py: voice inputs in a row that were not understood
    messages,              \* the request think() built for its latest endpoint call
    tasks,                 \* process_input: the tasks of route() still to be handled
    handled,               \* what process_input did for the utterance being processed
    msg_i,                 \* save_chat_history: index i of the pairing loop
    chat_data,             \* save_chat_history: chat_data["messages"], the saved pairs
    loaded_history         \* show_recent_chats_on_demand: the history it rebuilds

vars == <<current_model_index, conversation_history, hist, aliased, pc, model_name, attempt,
          ai_response, tts_job, tts_ready, fileState, synthPc, playPc, displayed,
          nCalls, nLoads, nextId, transcript, callLog, sleepLog, advances,
          startCursor, userTurn, waitTimedOut, stream, streamPos, full_response,
          clean_response, histBefore, playResult, saved, tts_text, interrupted,
          failed_attempts, messages, tasks, handled,
          msg_i, chat_data, loaded_history>>

thinkVars == <<hist, aliased, pc, model_name, attempt, ai_response>>
ttsVars == <<tts_job, tts_ready, fileState, synthPc>>
ghostVars == <<callLog, sleepLog, advances, startCursor, userTurn, waitTimedOut>>
streamVars == <<stream, streamPos, full_response, clean_response>>
inputVars == <<tasks, handled>>
saveVars == <<msg_i, chat_data, loaded_history>>

\* ---------------------------------------------------------------- helpers
Turn(role, text) == [role |-> role, parts |-> text]

Last(s) == s[Len(s)]
Pop(s) == SubSeq(s, 1, Len(s) - 1)

IsSuffix(s, t) ==
    /\ Len(s) <= Len(t)
    /\ \A i \in 1..Len(s) : s[i] = t[Len(t) - Len(s) + i]

\* conversation_history[-20:]
LastN(h, n) == IF Len(h) > n THEN SubSeq(h, Len(h) - n + 1, Len(h)) ELSE h

\* if len(conversation_history) > 20: conversation_history = conversation_history[-20:]
TrimNeeded(h) == Len(h) > MAX_HISTORY
TrimDropsNewest(h) == IF TrimNeeded(h) THEN SubSeq(h, 1, MAX_HISTORY) ELSE h
Trim(h) == IF TrimNeeded(h) THEN LastN(h, MAX_HISTORY) ELSE h

\* "429" in error_msg or "rate_limit" in error_msg.lower()
IsRateLimitAlways(e) == TRUE
IsRateLimit(e) == e \in {ErrRate429, ErrRateLimit}

\* if attempt < max_retries - 1
RetriesLeftOneLess(a) == a < max_retries - 2
RetriesLeft(a) == a < max_retries - 1

\* current_model_index += 1
AdvanceCursorStuck(i) == i
AdvanceCursorWrap(i) == (i + 1) % NumModels
AdvanceCursor(i) == i + 1

\* while current_model_index < len(MODELS)
ChainOpenInclusive(i) == i <= NumModels
ChainOpenOffByOne(i) == i < NumModels - 1
ChainOpen(i) == i < NumModels

\* for remaining in range(wait, 0, -5): time.sleep(5)
RECURSIVE SleepLoopStopsEarly(_, _)
SleepLoopStopsEarly(remaining, slept) ==
    IF remaining > SleepSlice
    THEN SleepLoopStopsEarly(remaining - SleepSlice, slept + SleepSlice)
    ELSE slept
RECURSIVE SleepLoop(_, _)
SleepLoop(remaining, slept) ==
    IF remaining > 0 THEN SleepLoop(remaining - SleepSlice, slept + SleepSlice)
    ELSE slept

\* audio_thread.join() returns when play_pregenerated has returned
JoinedWhilePlaying(p) == p \in {"playing", "done"}
JoinedNoWait(p) == TRUE
Joined(p) == p = "done"

\* the two replies the endpoint streams: "**a**" with an empty token in the middle,
\* and "a ;" whose last symbol the sanitizer drops
Streams ==
    { << <<"*", "*", "a">>, <<>>, <<"*", "*">> >>,
      << <<"a">>, <<" ", ";">> >> }

\* the text of every user utterance and of every turn of a saved chat
Utterance == <<"a">>

\* loaded_history of show_recent_chats_on_demand for a chat of p full pairs
RECURSIVE PairsToHistory(_, _)
PairsToHistory(p, first) ==
    IF p = 0 THEN <<>>
    ELSE <<Turn("user", <<first, Utterance>>), Turn("model", <<first + 1, Utterance>>)>>
         \o PairsToHistory(p - 1, first + 2)

LoadSizes == {1, MaxLoadPairs}

\* ------------------------------------------------ clean_text_for_speech
\* a text is a sequence of characters; these stand for the classes the sanitizer
\* tells apart: a letter, the markdown marks, a blank, a symbol outside every class
\* of the final pattern (";", as an emoji is) and one inside its '"'-':' range ("+")
Chars == {"a", "*", "#", "_", "backtick", "[", "]", "(", ")", " ", ";", "+"}

\* \s
IsSpace(c) == c = " "

\* \w
IsWord(c) == c \in {"a", "_"}

\* str.startswith
StartsWith(s, old) == Len(s) >= Len(old) /\ SubSeq(s, 1, Len(old)) = old

\* text.replace(old, '')
RECURSIVE Remove(_, _)
Remove(s, old) ==
    IF s = <<>> THEN <<>>
    ELSE IF StartsWith(s, old) THEN Remove(SubSeq(s, Len(old) + 1, Len(s)), old)
    ELSE <<Head(s)>> \o Remove(Tail(s), old)

\* (?<!\*)\*(?!\*) matches at position i
LoneStar(s, i) ==
    /\ s[i] = "*"
    /\ (i = 1 \/ s[i - 1] # "*")
    /\ (i = Len(s) \/ s[i + 1] # "*")

\* re.sub(r'(?<!\*)\*(?!\*)', '', text)
RECURSIVE DropLoneStars(_, _)
DropLoneStars(s, i) ==
    IF i > Len(s) THEN <<>>
    ELSE (IF LoneStar(s, i) THEN <<>> ELSE <<s[i]>>) \o DropLoneStars(s, i + 1)

\* #{1,6}: the end of a run of at most six '#' that starts at i
RECURSIVE SkipHashes(_, _, _)
SkipHashes(s, i, n) ==
    IF i <= Len(s) /\ s[i] = "#" /\ n < 6 THEN SkipHashes(s, i + 1, n + 1) ELSE i

\* \s*: the end of the whitespace run that starts at i
RECURSIVE SkipSpaces(_, _)
SkipSpaces(s, i) ==
    IF i <= Len(s) /\ IsSpace(s[i]) THEN SkipSpaces(s, i + 1) ELSE i

\* re.sub(r'#{1,6}\s*', '', text)
RECURSIVE DropHeadings(_, _)
DropHeadings(s, i) ==
    IF i > Len(s) THEN <<>>
    ELSE IF s[i] = "#" THEN DropHeadings(s, SkipSpaces(s, SkipHashes(s, i, 0)))
    ELSE <<s[i]>> \o DropHeadings(s, i + 1)

\* [^x]+ : the first position from i on that holds x, or Len(s) + 1
RECURSIVE RunEnd(_, _, _)
RunEnd(s, i, x) ==
    IF i <= Len(s) /\ s[i] # x THEN RunEnd(s, i + 1, x) ELSE i

\* \[([^\]]+)\]\([^\)]+\) matches at position i
LabelEnd(s, i) == RunEnd(s, i + 1, "]")
UrlEnd(s, i) == RunEnd(s, LabelEnd(s, i) + 2, ")")
LinkAt(s, i) ==
    /\ s[i] = "["
    /\ LabelEnd(s, i) > i + 1
    /\ LabelEnd(s, i) + 1 <= Len(s)
    /\ s[LabelEnd(s, i) + 1] = "("
    /\ UrlEnd(s, i) > LabelEnd(s, i) + 2
    /\ UrlEnd(s, i) <= Len(s)

\* re.sub(r'\[([^\]]+)\]\([^\)]+\)', r'\1', text)
RECURSIVE ReplaceLinks(_, _)
ReplaceLinks(s, i) ==
    IF i > Len(s) THEN <<>>
    ELSE IF LinkAt(s, i)
         THEN SubSeq(s, i + 1, LabelEnd(s, i) - 1) \o ReplaceLinks(s, UrlEnd(s, i) + 1)
         ELSE <<s[i]>> \o ReplaceLinks(s, i + 1)

\* ' '.join(text.split())
RECURSIVE JoinSplit(_, _, _)
JoinSplit(s, i, started) ==
    IF i > Len(s) THEN <<>>
    ELSE IF IsSpace(s[i])
         THEN IF started /\ SkipSpaces(s, i) <= Len(s)
              THEN <<" ">> \o JoinSplit(s, SkipSpaces(s, i), TRUE)
              ELSE JoinSplit(s, SkipSpaces(s, i), started)
         ELSE <<s[i]>> \o JoinSplit(s, i + 1, TRUE)

\* the range '"'-':' of the final pattern, as far as Chars goes
QuoteToColon == {"#", "(", ")", "*", "+"}

\* [\w\s,.!?\'"-:] : the characters the final pattern keeps
Kept(c) == IsWord(c) \/ IsSpace(c) \/ c \in QuoteToColon

\* re.sub(r'[^\w\s,.!?\'"-:]', '', text)
DropOthers(s) == SelectSeq(s, Kept)

clean_text_for_speech(text) ==
    LET t1 == Remove(text, <<"*", "*">>)
        t2 == DropLoneStars(t1, 1)
        t3 == DropHeadings(t2, 1)
        t4 == Remove(t3, <<"_">>)
        t5 == Remove(t4, <<"backtick">>)
        t6 == ReplaceLinks(t5, 1)
        t7 == JoinSplit(t6, 1, FALSE)
    IN DropOthers(t7)

\* ------------------------------------------------------------------- Init
\* the state of a new process, apart from the main thread's position and input
Fresh ==
    /\ current_model_index = 0
    /\ hist = <<>>
    /\ aliased = FALSE
    /\ model_name = 0
    /\ attempt = 0
    /\ ai_response = "none"
    /\ tts_job = "unset"
    /\ tts_ready = FALSE
    /\ fileState = "none"
    /\ synthPc = "none"
    /\ playPc = "none"
    /\ displayed = 0
    /\ nCalls = 0
    /\ nLoads = 0
    /\ nextId = 1
    /\ transcript = <<>>
    /\ callLog = <<>>
    /\ sleepLog = <<>>
    /\ advances = 0
    /\ startCursor = 0
    /\ userTurn = Turn("user", <<0, Utterance>>)
    /\ waitTimedOut = FALSE
    /\ stream = <<>>
    /\ streamPos = 0
    /\ clean_response = <<>>
    /\ histBefore = <<>>
    /\ playResult = "none"
    /\ saved = <<>>
    /\ tts_text = <<>>
    /\ interrupted = FALSE
    /\ failed_attempts = 0
    /\ messages = <<>>
    /\ tasks = <<>>
    /\ handled = <<>>
    /\ msg_i = 0
    /\ chat_data = <<>>
    /\ loaded_history = <<>>

Init ==
    /\ Fresh
    /\ conversation_history = <<>>
    /\ pc = "idle"
    /\ full_response = <<>>

\* --------------------------------------------------- think(): main thread
\* return <text>, conversation_history  (and the caller's assignment of it)
Return(text, h) ==
    /\ conversation_history' = h
    /\ hist' = <<>>
    /\ aliased' = FALSE
    /\ ai_response' = text
    /\ pc' = "idle"

\* conversation_history.pop(); return <fallback>, conversation_history
FailReturn(text) ==
    /\ Return(text, Pop(hist))
    /\ transcript' = Pop(transcript)

\* except Exception: every error but KeyboardInterrupt, which is a BaseException
CaughtEverything(e) == TRUE
CaughtOnlyRateLimit(e) == IsRateLimit(e)
Caught(e) == e # KeyboardInterrupt

\* an exception think() does not catch unwinds its frame and reaches main()
Propagate(e) ==
    /\ pc' = IF e = KeyboardInterrupt THEN "interrupted" ELSE "raised"
    /\ hist' = <<>>
    /\ aliased' = FALSE
    /\ UNCHANGED <<current_model_index, conversation_history, ai_response, transcript,
                   advances>>

\* the except clause of think() for an exception whose str() is e
Except(e) ==
    IF ~Caught(e)
    THEN Propagate(e)
    ELSE IF IsRateLimit(e)
    THEN IF RetriesLeft(attempt)
         THEN /\ pc' = "sleep"
              /\ UNCHANGED <<current_model_index, conversation_history, hist, aliased,
                             ai_response, transcript, advances>>
         ELSE /\ current_model_index' = AdvanceCursor(current_model_index)
              /\ advances' = advances + 1
              /\ pc' = "while"
              /\ UNCHANGED <<conversation_history, hist, aliased, ai_response,
                             transcript>>
    ELSE /\ FailReturn(TroubleMsg)
         /\ UNCHANGED <<current_model_index, advances>>

\* entry of think(): append the user turn, slide the window
ThinkStart ==
    /\ pc = "idle"
    /\ nCalls < MaxCalls
    /\ LET u == Turn("user", <<nextId, Utterance>>)
           appended == Append(conversation_history, u)
       IN /\ conversation_history' = appended
          /\ hist' = Trim(appended)
          /\ aliased' = ~TrimNeeded(appended)
          /\ transcript' = Append(transcript, u)
          /\ userTurn' = u
    /\ histBefore' = conversation_history
    /\ nextId' = nextId + 1
    /\ nCalls' = nCalls + 1
    /\ pc' = "while"
    /\ tts_job' = "unset"
    /\ playPc' = "none"
    /\ playResult' = "none"
    /\ displayed' = 0
    /\ stream' = <<>>
    /\ streamPos' = 0
    /\ full_response' = <<>>
    /\ clean_response' = <<>>
    /\ tts_text' = <<>>
    /\ messages' = <<>>
    /\ callLog' = <<>>
    /\ sleepLog' = <<>>
    /\ advances' = 0
    /\ startCursor' = current_model_index
    /\ waitTimedOut' = FALSE
    /\ UNCHANGED <<current_model_index, model_name, attempt, ai_response, tts_ready,
                   fileState, synthPc, nLoads, saved, interrupted,
                   failed_attempts, inputVars, saveVars>>

\* while current_model_index < len(MODELS): ... ; after the loop: all models exhausted
WhileCheck ==
    /\ pc = "while"
    /\ IF ChainOpen(current_model_index)
       THEN /\ pc' = "call"
            /\ model_name' = current_model_index
            /\ attempt' = 0
            /\ UNCHANGED <<conversation_history, hist, aliased, ai_response, transcript>>
       ELSE /\ FailReturn(ExhaustedMsg)
            /\ UNCHANGED <<model_name, attempt>>
    /\ UNCHANGED <<current_model_index, ttsVars, playPc, displayed, nCalls, nLoads,
                   nextId, ghostVars, streamVars, histBefore, playResult, saved,
                   tts_text, interrupted, failed_attempts, messages, inputVars, saveVars>>

\* the system prompt think() builds before its loop
system_prompt == "system_prompt"

\* one message of a request
Message(role, content) == [role |-> role, content |-> content]

\* messages = [system] + [{role, content: msg["parts"][0]} for msg in history]
build_groq_messages_system_last(history, prompt) ==
    [i \in 1..Len(history) |->
        Message(IF history[i].role = "user" THEN "user" ELSE "assistant",
                history[i].parts)]
    \o <<Message("system", prompt)>>
build_groq_messages(history, prompt) ==
    <<Message("system", prompt)>>
    \o [i \in 1..Len(history) |->
           Message(IF history[i].role = "user" THEN "user" ELSE "assistant",
                   history[i].parts)]

\* the call log entry of one attempt: endpoint and outcome
Call(i, r) == [idx |-> i, res |-> r]

\* the last entry of the call log with its outcome settled
Settle(log, r) == Append(Pop(log), Call(Last(log).idx, r))

\* messages = build_groq_messages(conversation_history, system_prompt);
\* stream = client.chat.completions.create(...); full_response = ""
EndpointCall ==
    /\ pc = "call"
    /\ messages' = build_groq_messages(hist, system_prompt)
    /\ \E r \in {"ok"} \cup EndpointErrors :
          IF r = "ok"
          THEN /\ \E s \in Streams : stream' = s
               /\ streamPos' = 0
               /\ full_response' = <<>>
               /\ callLog' = Append(callLog, Call(model_name, "open"))
               /\ pc' = "stream"
               /\ UNCHANGED <<current_model_index, conversation_history, hist,
                              aliased, ai_response, transcript, advances>>
          ELSE /\ callLog' = Append(callLog, Call(model_name, Outcome(r)))
               /\ Except(r)
               /\ UNCHANGED <<stream, streamPos, full_response>>
    /\ UNCHANGED <<model_name, attempt, ttsVars, playPc, displayed, nCalls, nLoads, nextId,
                   sleepLog, startCursor, userTurn, waitTimedOut, clean_response,
                   histBefore, playResult, saved,
                   tts_text, interrupted, failed_attempts, inputVars, saveVars>>

\* full_response after the first n chunks of the stream s
RECURSIVE Assemble(_, _)
Assemble(s, n) == IF n = 0 THEN <<>> ELSE Assemble(s, n - 1) \o s[n]

\* clean_text_for_speech on each text the loop can assemble from a stream
\* if token: full_response += token
AddTokenInFront(text, token) == IF token # <<>> THEN token \o text ELSE text
AddToken(text, token) == IF token # <<>> THEN text \o token ELSE text

Assembled == UNION {{Assemble(s, n) : n \in 0..Len(s)} : s \in Streams}
CleanedTwice ==
    [t \in Assembled |-> clean_text_for_speech(clean_text_for_speech(t))]
Cleaned == [t \in Assembled |-> clean_text_for_speech(t)]

\* the for loop over the stream has no handler of its own: an error of the stream
\* leaves the loop for the except clause of the attempt
StreamAbortsNever(r) == FALSE
StreamAborts(r) == r # "ok"

\* for chunk in stream: one chunk arrives, the stream ends, or the stream raises
ReadStream ==
    /\ pc = "stream"
    /\ \E r \in {"ok"} \cup EndpointErrors :
          IF StreamAborts(r)
          THEN /\ callLog' = Settle(callLog, Outcome(r))
               /\ Except(r)
               /\ UNCHANGED <<streamPos, full_response, clean_response>>
          ELSE IF r = "ok" /\ streamPos < Len(stream)
          THEN /\ streamPos' = streamPos + 1
               /\ full_response' = AddToken(full_response, stream[streamPos + 1])
               /\ UNCHANGED <<current_model_index, conversation_history, hist,
                              aliased, pc, ai_response, transcript, advances, callLog,
                              clean_response>>
          ELSE /\ callLog' = Settle(callLog, Outcome(r))
               /\ clean_response' = Cleaned[full_response]
               /\ pc' = "tts"
               /\ UNCHANGED <<current_model_index, conversation_history, hist,
                              aliased, ai_response, transcript, advances, streamPos,
                              full_response>>
    /\ UNCHANGED <<model_name, attempt, ttsVars, playPc, displayed, nCalls, nLoads, nextId,
                   sleepLog, startCursor, userTurn, waitTimedOut, stream, histBefore,
                   playResult, saved,
                   tts_text, interrupted, failed_attempts, messages, inputVars, saveVars>>

\* the countdown of the rate-limit branch, then the next pass of the for loop
Backoff ==
    /\ pc = "sleep"
    /\ sleepLog' = Append(sleepLog,
                          [idx |-> model_name,
                           secs |-> SleepLoop(wait_times[attempt + 1], 0)])
    /\ attempt' = attempt + 1
    /\ pc' = "call"
    /\ UNCHANGED <<current_model_index, conversation_history, hist, aliased,
                   model_name, ai_response, ttsVars, playPc, displayed, nCalls, nLoads,
                   nextId, transcript, callLog, advances, startCursor, userTurn,
                   waitTimedOut, streamVars, histBefore, playResult, saved,
                   tts_text, interrupted, failed_attempts, messages, inputVars, saveVars>>

\* tts_file, tts_ready = start_tts_generation(clean_response)
StartTts ==
    /\ pc = "tts"
    /\ \E outcome \in {"started", "no_tempfile", "no_thread"} :
          CASE outcome = "started" ->
                 /\ tts_job' = "job"
                 /\ tts_ready' = FALSE
                 /\ fileState' = "empty"
                 /\ synthPc' = "running"
            [] outcome = "no_tempfile" ->
                 /\ tts_job' = "None"
                 /\ UNCHANGED <<tts_ready, fileState, synthPc>>
            [] outcome = "no_thread" ->
                 /\ tts_job' = "None"
                 /\ fileState' = "empty"
                 /\ UNCHANGED <<tts_ready, synthPc>>
    /\ tts_text' = clean_response
    /\ pc' = "wait"
    /\ UNCHANGED <<current_model_index, conversation_history, hist, aliased, model_name,
                   attempt, ai_response, playPc, displayed, nCalls, nLoads, nextId, transcript,
                   ghostVars, streamVars, histBefore, playResult, saved, interrupted,
                   failed_attempts, messages, inputVars, saveVars>>

\* audio_thread = threading.Thread(target=play_pregenerated, ...); audio_thread.start()
StartAudioThread ==
    /\ playPc' = "wait"
    /\ displayed' = 0
    /\ pc' = "display"

\* tts_ready.wait(timeout=10) returns because the event is set
WaitReadySet ==
    /\ pc = "wait"
    /\ tts_job = "job"
    /\ tts_ready
    /\ StartAudioThread
    /\ UNCHANGED <<current_model_index, conversation_history, hist, aliased, model_name,
                   attempt, ai_response, ttsVars, nCalls, nLoads, nextId, transcript, ghostVars,
                   streamVars, histBefore, playResult, saved,
                   tts_text, interrupted, failed_attempts, messages, inputVars, saveVars>>

\* Event.wait(timeout) reports a timeout by its return value, which think() ignores
WaitRaisesOnTimeout(ready) == ~ready
WaitRaises(ready) == FALSE

\* tts_ready.wait(timeout=10) returns because ten seconds have passed
WaitReadyTimeout ==
    /\ pc = "wait"
    /\ tts_job = "job"
    /\ ~tts_ready
    /\ waitTimedOut' = TRUE
    /\ IF WaitRaises(tts_ready)
       THEN /\ Except(ErrOther)
            /\ UNCHANGED <<playPc, displayed>>
       ELSE /\ StartAudioThread
            /\ UNCHANGED <<current_model_index, conversation_history, hist, aliased,
                           ai_response, transcript, advances>>
    /\ UNCHANGED <<model_name, attempt, ttsVars, nCalls, nLoads, nextId, callLog,
                   sleepLog, startCursor, userTurn, streamVars, histBefore, playResult,
                   saved,
                   tts_text, interrupted, failed_attempts, messages, inputVars, saveVars>>

\* tts_ready is None: tts_ready.wait raises AttributeError inside the try block
WaitReadyNone ==
    /\ pc = "wait"
    /\ tts_job = "None"
    /\ Except(ErrNoneWait)
    /\ UNCHANGED <<model_name, attempt, ttsVars, playPc, displayed, nCalls, nLoads, nextId,
                   callLog, sleepLog, startCursor, userTurn, waitTimedOut, streamVars,
                   histBefore, playResult, saved,
                   tts_text, interrupted, failed_attempts, messages, inputVars, saveVars>>

\* slow_display returns after the last character of clean_response
DisplayDoneAtOnce(d) == TRUE
DisplayDone(d) == d = Len(clean_response)

\* one character of slow_display(clean_response)
DisplayStep ==
    /\ pc = "display"
    /\ ~DisplayDone(displayed)
    /\ displayed' = displayed + 1
    /\ UNCHANGED <<current_model_index, conversation_history, thinkVars, ttsVars,
                   playPc, nCalls, nLoads, nextId, transcript, ghostVars, streamVars,
                   histBefore, playResult, saved,
                   tts_text, interrupted, failed_attempts, messages, inputVars, saveVars>>

\* slow_display returns
DisplayEnd ==
    /\ pc = "display"
    /\ DisplayDone(displayed)
    /\ pc' = "join"
    /\ UNCHANGED <<current_model_index, conversation_history, hist, aliased, model_name,
                   attempt, ai_response, ttsVars, playPc, displayed, nCalls, nLoads, nextId,
                   transcript, ghostVars, streamVars, histBefore, playResult, saved,
                   tts_text, interrupted, failed_attempts, messages, inputVars, saveVars>>

\* audio_thread.join(); append the assistant turn; return clean_response
JoinAndReturn ==
    /\ pc = "join"
    /\ Joined(playPc)
    /\ LET m == Turn("model", <<nextId, clean_response>>)
       IN /\ Return(ReplyMsg, Append(hist, m))
          /\ transcript' = Append(transcript, m)
    /\ nextId' = nextId + 1
    /\ UNCHANGED <<current_model_index, model_name, attempt, ttsVars, playPc,
                   displayed, nCalls, nLoads, ghostVars, streamVars, histBefore,
                   playResult, saved,
                   tts_text, interrupted, failed_attempts, messages, inputVars, saveVars>>

\* ------------------------------- generate_speech_background (synthesis thread)
\* ready_event.set() of the except clause
ReadyAfterFailureKept(r) == r
ReadyAfterFailure(r) == TRUE

\* daemon threads run only while the process lives
Alive == pc # "exited"

\* communicate.save(output_file) writes audio into the temporary file
SynthWrite ==
    /\ Alive
    /\ synthPc = "running"
    /\ fileState = "empty"
    /\ fileState' = "partial"
    /\ UNCHANGED <<current_model_index, conversation_history, thinkVars, tts_job,
                   tts_ready, synthPc, playPc, displayed, nCalls, nLoads, nextId,
                   transcript, ghostVars, streamVars, histBefore, playResult, saved,
                   tts_text, interrupted, failed_attempts, messages, inputVars, saveVars>>

\* asyncio.run(...) returns; ready_event.set()
SynthDone ==
    /\ Alive
    /\ synthPc = "running"
    /\ fileState \in {"partial", "deleted"}
    /\ fileState' = IF fileState = "partial" THEN "audio" ELSE fileState
    /\ tts_ready' = TRUE
    /\ synthPc' = "done"
    /\ UNCHANGED <<current_model_index, conversation_history, thinkVars, tts_job,
                   playPc, displayed, nCalls, nLoads, nextId, transcript, ghostVars,
                   streamVars, histBefore, playResult, saved,
                   tts_text, interrupted, failed_attempts, messages, inputVars, saveVars>>

\* asyncio.run(...) raises; the except clause sets the event anyway
SynthFail ==
    /\ Alive
    /\ synthPc = "running"
    /\ tts_ready' = ReadyAfterFailure(tts_ready)
    /\ synthPc' = "failed"
    /\ UNCHANGED <<current_model_index, conversation_history, thinkVars, tts_job,
                   fileState, playPc, displayed, nCalls, nLoads, nextId, transcript,
                   ghostVars, streamVars, histBefore, playResult, saved,
                   tts_text, interrupted, failed_attempts, messages, inputVars, saveVars>>

\* ----------------------------------------- play_pregenerated (playback thread)
\* ready_event.wait(timeout=10): returns when the event is set or after ten seconds;
\* without a file name or an event the function returns at once
PlayWait ==
    /\ Alive
    /\ playPc = "wait"
    /\ IF tts_job = "job"
       THEN /\ playPc' = "check"
            /\ UNCHANGED playResult
       ELSE /\ playPc' = "done"
            /\ playResult' = "noop"
    /\ UNCHANGED <<current_model_index, conversation_history, thinkVars, ttsVars,
                   displayed, nCalls, nLoads, nextId, transcript, ghostVars, streamVars,
                   histBefore, saved,
                   tts_text, interrupted, failed_attempts, messages, inputVars, saveVars>>

\* os.path.exists(temp_filename)
FileExists(f) == f \in {"empty", "partial", "audio"}

\* pygame.mixer.music.load / play can succeed only on a file that holds audio
Loadable(f) == f \in {"partial", "audio"}

\* the exists check, mixer init, load and play; on an exception the error is printed
\* and the file is unlinked
PlayLoad ==
    /\ Alive
    /\ playPc = "check"
    /\ IF ~FileExists(fileState)
       THEN /\ playPc' = "done"
            /\ playResult' = "noop"
            /\ UNCHANGED fileState
       ELSE \E ok \in BOOLEAN :
              /\ ok => Loadable(fileState)
              /\ IF ok
                 THEN /\ playPc' = "playing"
                      /\ playResult' = "played"
                      /\ UNCHANGED fileState
                 ELSE /\ playPc' = "done"
                      /\ playResult' = "error"
                      /\ fileState' = "deleted"
    /\ UNCHANGED <<current_model_index, conversation_history, thinkVars, tts_job,
                   tts_ready, synthPc, displayed, nCalls, nLoads, nextId, transcript,
                   ghostVars, streamVars, histBefore, saved,
                   tts_text, interrupted, failed_attempts, messages, inputVars, saveVars>>

\* get_busy() turns false; unload; os.unlink(temp_filename)
PlayFinish ==
    /\ Alive
    /\ playPc = "playing"
    /\ playPc' = "done"
    /\ fileState' = "deleted"
    /\ UNCHANGED <<current_model_index, conversation_history, thinkVars, tts_job,
                   tts_ready, synthPc, displayed, nCalls, nLoads, nextId, transcript,
                   ghostVars, streamVars, histBefore, playResult, saved,
                   tts_text, interrupted, failed_attempts, messages, inputVars, saveVars>>

\* ------------------------------------------------------------------ caller
\* process_input: a chat-history trigger loads a saved chat of p pairs
LoadChat ==
    /\ pc = "idle"
    /\ nLoads < MaxLoads
    /\ \E p \in LoadSizes :
          LET loaded == Trim(PairsToHistory(p, nextId))
          IN /\ conversation_history' = loaded
             /\ transcript' = loaded
             /\ nextId' = nextId + 2 * p
    /\ nLoads' = nLoads + 1
    /\ UNCHANGED <<current_model_index, thinkVars, ttsVars, playPc, displayed, nCalls,
                   ghostVars, streamVars, histBefore, playResult, saved,
                   tts_text, interrupted, failed_attempts, messages, inputVars, saveVars>>

\* the stages of think() in which the main thread waits: the endpoint call, the
\* stream, the back-off sleep, the readiness wait, the typewriter display, the join
Suspended(p) == p \in {"call", "stream", "sleep", "wait", "display", "join"}

\* Ctrl+C during think(): KeyboardInterrupt is raised in the main thread
Interrupt ==
    /\ Suspended(pc)
    /\ Except(KeyboardInterrupt)
    /\ interrupted' = TRUE
    /\ UNCHANGED <<model_name, attempt, ttsVars, playPc, displayed, nCalls, nLoads, nextId,
                   callLog, sleepLog, startCursor, userTurn, waitTimedOut, streamVars,
                   histBefore, playResult, saved, tts_text,
                   failed_attempts, messages, inputVars, saveVars>>

\* except KeyboardInterrupt of main(): save_chat_history(conversation_history, ...);
\* break; the interpreter exits and its daemon threads end with it
EmergencyExit ==
    /\ pc = "interrupted"
    /\ saved' = Append(saved, conversation_history)
    /\ pc' = "exited"
    /\ UNCHANGED <<current_model_index, conversation_history, hist, aliased, model_name,
                   attempt, ai_response, ttsVars, playPc, displayed, nCalls, nLoads, nextId,
                   transcript, ghostVars, streamVars, histBefore, playResult,
                   tts_text, interrupted, failed_attempts, messages, inputVars, saveVars>>

\* ------------------------------------------------------------ the sanitizer alone
\* every text of at most n characters
Texts(n) == UNION {[1..k -> Chars] : k \in 0..n}

\* three one-character words with a separator on each side of the middle one
WordTexts == {<<x, " ", y, " ", z>> : x \in Chars, y \in Chars, z \in Chars}

\* a markdown link [a](url) with a url of one or two characters
LinkTexts ==
    {<<"[", "a", "]", "(">> \o u \o <<")">> :
        u \in {v \in Texts(2) : v # <<>> /\ \A i \in 1..Len(v) : v[i] # ")"}}

SanInputs == Texts(MaxTextLen) \cup WordTexts \cup LinkTexts

SanInit ==
    /\ Fresh
    /\ conversation_history = <<>>
    /\ pc = "clean"
    /\ full_response \in SanInputs

\* clean_response = clean_text_for_speech(full_response)
Sanitize ==
    /\ pc = "clean"
    /\ clean_response' = clean_text_for_speech(full_response)
    /\ pc' = "cleaned"
    /\ UNCHANGED <<current_model_index, conversation_history, hist, aliased, model_name,
                   attempt, ai_response, ttsVars, playPc, displayed, nCalls, nLoads, nextId,
                   transcript, ghostVars, stream, streamPos, full_response, histBefore,
                   playResult, saved,
                   tts_text, interrupted, failed_attempts, messages, inputVars, saveVars>>

\* the sanitizer applied to its own output
SanitizeAgain ==
    /\ pc = "cleaned"
    /\ full_response' = clean_response
    /\ clean_response' = clean_text_for_speech(clean_response)
    /\ pc' = "recleaned"
    /\ UNCHANGED <<current_model_index, conversation_history, hist, aliased, model_name,
                   attempt, ai_response, ttsVars, playPc, displayed, nCalls, nLoads, nextId,
                   transcript, ghostVars, stream, streamPos, histBefore, playResult,
                   saved,
                   tts_text, interrupted, failed_attempts, messages, inputVars, saveVars>>

SanNext == Sanitize \/ SanitizeAgain

SanSpec == SanInit /\ [][SanNext]_vars

\* ------------------------------------------------- saiyaara.py: think(user_input)
\* the retry loops of think() of saiyaara.py from the cursor and attempt given, on the
\* outcomes its endpoint calls will have, with reply as the assistant turn of a
\* success: the endpoints it called, the cursor and the history it leaves, its result
RECURSIVE SaiyaaraLoop(_, _, _, _, _, _)
SaiyaaraLoop(cursor, a, h, outcomes, reply, calls) ==
    IF ~(cursor < NumModels)
    THEN [calls |-> calls, cursor |-> cursor, history |-> Pop(h), text |-> ExhaustedMsg]
    ELSE IF outcomes = <<>>
    THEN [calls |-> calls, cursor |-> cursor, history |-> h, text |-> "none"]
    ELSE IF Head(outcomes) = "ok"
    THEN [calls |-> Append(calls, cursor), cursor |-> cursor,
          history |-> Append(h, reply), text |-> ReplyMsg]
    ELSE IF Head(outcomes) = "rate_limit"
    THEN IF a < max_retries - 1
         THEN SaiyaaraLoop(cursor, a + 1, h, Tail(outcomes), reply,
                           Append(calls, cursor))
         ELSE SaiyaaraLoop(cursor + 1, 0, h, Tail(outcomes), reply,
                           Append(calls, cursor))
    ELSE [calls |-> Append(calls, cursor), cursor |-> cursor, history |-> Pop(h),
          text |-> TroubleMsg]

\* think() of saiyaara.py: append the user turn, keep the last MAX_HISTORY turns,
\* then the retry loops
SaiyaaraThink(cursor, history, user, outcomes, reply) ==
    LET appended == Append(history, user)
        h == IF Len(appended) > MAX_HISTORY THEN LastN(appended, MAX_HISTORY)
             ELSE appended
    IN SaiyaaraLoop(cursor, 0, h, outcomes, reply, <<>>)

\* ------------------------------------------- saiyaara.py: the menu-driven program
MenuInit ==
    /\ Fresh
    /\ conversation_history = <<>>
    /\ pc = "menu"
    /\ full_response = <<>>

\* what the menu program leaves alone in every step
menuFrame == <<hist, aliased, model_name, attempt, ttsVars, playPc, displayed, nLoads,
               transcript, ghostVars, streamVars, histBefore, playResult, tts_text,
               interrupted, messages, inputVars, saveVars>>

\* choice = get_input_choice(); failed_attempts = 0
ChooseMode ==
    /\ pc = "menu"
    /\ \E choice \in {"voice", "text"} : pc' = choice
    /\ failed_attempts' = 0
    /\ UNCHANGED <<current_model_index, conversation_history, ai_response, nCalls, nextId,
                   saved, menuFrame>>

\* listen() returns None: the third failure in a row breaks out to the menu
ListenFails ==
    /\ pc = "voice"
    /\ failed_attempts' = failed_attempts + 1
    /\ pc' = IF failed_attempts + 1 >= max_failed_attempts THEN "menu" ELSE pc
    /\ UNCHANGED <<current_model_index, conversation_history, ai_response, nCalls, nextId,
                   saved, menuFrame>>

\* ai_response = think(user_text); speak(ai_response): think() of saiyaara.py appends
\* the user turn, slides the window, and appends the reply or pops the user turn
Exchange ==
    /\ pc \in {"voice", "text"}
    /\ nCalls < MaxCalls
    /\ LET h == Trim(Append(conversation_history,
                            Turn("user", <<nextId, Utterance>>)))
       IN \E text \in {ReplyMsg, TroubleMsg, ExhaustedMsg} :
             /\ ai_response' = text
             /\ conversation_history' =
                    IF text = ReplyMsg
                    THEN Append(h, Turn("model", <<nextId + 1, Utterance>>))
                    ELSE Pop(h)
             /\ IF text = ExhaustedMsg
                THEN current_model_index' = NumModels
                ELSE /\ ChainOpen(current_model_index)
                     /\ \E i \in current_model_index..(NumModels - 1) :
                           current_model_index' = i
    /\ nextId' = nextId + 2
    /\ nCalls' = nCalls + 1
    /\ failed_attempts' = 0
    /\ UNCHANGED <<pc, saved, menuFrame>>

\* a quit word: speak(...); save_chat_history(); conversation_history.clear(); break
QuitWord ==
    /\ pc \in {"voice", "text"}
    /\ Len(saved) < MaxSessions
    /\ saved' = Append(saved, conversation_history)
    /\ conversation_history' = <<>>
    /\ pc' = "menu"
    /\ UNCHANGED <<current_model_index, ai_response, nCalls, nextId, failed_attempts,
                   menuFrame>>

\* Ctrl+C in the menu or in a session: save_chat_history(); return or break
MenuInterrupt ==
    /\ pc \in {"menu", "voice", "text"}
    /\ saved' = Append(saved, conversation_history)
    /\ pc' = "exited"
    /\ UNCHANGED <<current_model_index, conversation_history, ai_response, nCalls, nextId,
                   failed_attempts, menuFrame>>

MenuNext == ChooseMode \/ ListenFails \/ Exchange \/ QuitWord \/ MenuInterrupt

MenuSpec == MenuInit /\ [][MenuNext]_vars

\* ------------------------------------------------------------ specification
MainThread ==
    \/ ThinkStart
    \/ WhileCheck
    \/ EndpointCall
    \/ ReadStream
    \/ Backoff
    \/ StartTts
    \/ WaitReadySet
    \/ WaitReadyTimeout
    \/ WaitReadyNone
    \/ DisplayStep
    \/ DisplayEnd
    \/ JoinAndReturn

SynthThread == SynthWrite \/ SynthDone \/ SynthFail

PlayThread == PlayWait \/ PlayLoad \/ PlayFinish

\* the runs in which nobody presses Ctrl+C
Uninterrupted == MainThread \/ SynthThread \/ PlayThread \/ LoadChat

Next == Uninterrupted \/ Interrupt \/ EmergencyExit

Spec == Init /\ [][Next]_vars

\* every started thread keeps running; the main thread finishes a turn it began
InTurn ==
    \/ WhileCheck
    \/ EndpointCall
    \/ ReadStream
    \/ Backoff
    \/ StartTts
    \/ WaitReadySet
    \/ WaitReadyTimeout
    \/ WaitReadyNone
    \/ DisplayStep
    \/ DisplayEnd
    \/ JoinAndReturn

FairSpec ==
    /\ Init
    /\ [][Uninterrupted]_vars
    /\ WF_vars(InTurn)
    /\ WF_vars(SynthThread)
    /\ WF_vars(PlayThread)

\* ------------------------------------- chat_history.py: saving and reloading a chat
\* the history whose k-th turn has the k-th role of roles; every turn has its own text
HistoryOf(roles) == [k \in 1..Len(roles) |-> Turn(roles[k], <<k, Utterance>>)]

Roles == {"user", "model"}

\* MAX_HISTORY turns: user and model in turn, model and user in turn, one role only
FullHistories ==
    {[k \in 1..MAX_HISTORY |-> IF k % 2 = 1 THEN a ELSE b] : a \in Roles, b \in Roles}

\* the histories that are saved: every order of roles up to MaxTurns turns, and the
\* full histories
SaveInputs ==
    {HistoryOf(roles) :
        roles \in UNION {[1..n -> Roles] : n \in 0..MaxTurns} \cup FullHistories}

SaveInit ==
    /\ Fresh
    /\ pc = "save"
    /\ full_response = <<>>
    /\ conversation_history \in SaveInputs

\* what saving and reloading leave alone
saveFrame == <<current_model_index, conversation_history, hist, aliased, model_name,
               attempt, ai_response, ttsVars, playPc, displayed, nCalls, nLoads, nextId,
               transcript, ghostVars, streamVars, histBefore, playResult, tts_text,
               interrupted, failed_attempts, messages, inputVars>>

\* save_chat_history: an empty history is not saved; messages = conversation_history; i = 0
SaveStart ==
    /\ pc = "save"
    /\ saved' = Append(saved, conversation_history)
    /\ pc' = IF Len(conversation_history) = 0 THEN "unsaved" ELSE "pairing"
    /\ msg_i' = 0
    /\ chat_data' = <<>>
    /\ UNCHANGED <<loaded_history, saveFrame>>

\* if i < len(messages) and messages[i]["role"] == role (i counts from 0)
RoleAt(m, i, role) == i < Len(m) /\ m[i + 1].role = role

\* one pass of the pairing loop from index i: the pair it builds and the index it leaves
PairSkipsModel(m, i) ==
    LET me == RoleAt(m, i, "user")
        j == IF me THEN i + 1 ELSE i
        her == RoleAt(m, j, "model")
    IN [pair |-> IF me THEN [me |-> m[i + 1].parts] ELSE <<>>,
        next |-> IF her THEN j + 1 ELSE j]
Pair(m, i) ==
    LET me == RoleAt(m, i, "user")
        j == IF me THEN i + 1 ELSE i
        her == RoleAt(m, j, "model")
    IN [pair |-> IF me /\ her THEN [me |-> m[i + 1].parts, saiyaara |-> m[j + 1].parts]
                 ELSE IF me THEN [me |-> m[i + 1].parts]
                 ELSE IF her THEN [saiyaara |-> m[j + 1].parts]
                 ELSE <<>>,
        next |-> IF her THEN j + 1 ELSE j]

\* while i < len(messages): build a pair; if pair: chat_data["messages"].append(pair)
PairStep ==
    /\ pc = "pairing"
    /\ msg_i < Len(conversation_history)
    /\ LET p == Pair(conversation_history, msg_i)
       IN /\ chat_data' = IF p.pair # <<>> THEN Append(chat_data, p.pair) ELSE chat_data
          /\ msg_i' = p.next
    /\ UNCHANGED <<pc, saved, loaded_history, saveFrame>>

\* the loop ends; json.dump(chat_data, f, ...)
SaveWrite ==
    /\ pc = "pairing"
    /\ ~(msg_i < Len(conversation_history))
    /\ pc' = "written"
    /\ UNCHANGED <<saved, saveVars, saveFrame>>

\* for pair in selected["messages"]: the turns of a pair, "me" before "saiyaara"
RECURSIVE Rebuild(_)
Rebuild(pairs) ==
    IF pairs = <<>> THEN <<>>
    ELSE LET pair == Head(pairs)
         IN (IF "me" \in DOMAIN pair THEN <<Turn("user", pair.me)>> ELSE <<>>)
            \o (IF "saiyaara" \in DOMAIN pair THEN <<Turn("model", pair.saiyaara)>>
                ELSE <<>>)
            \o Rebuild(Tail(pairs))

\* show_recent_chats_on_demand: rebuild the history of the chosen chat, keep its last
\* MAX_HISTORY turns
Reload ==
    /\ pc = "written"
    /\ loaded_history' = LastN(Rebuild(chat_data), MAX_HISTORY)
    /\ pc' = "loaded"
    /\ UNCHANGED <<saved, msg_i, chat_data, saveFrame>>

SaveNext == SaveStart \/ PairStep \/ SaveWrite \/ Reload

SaveSpec == SaveInit /\ [][SaveNext]_vars /\ WF_vars(SaveNext)

\* ------------------------------------------------ main.py: greeting and process_input
\* the greeting of greet_on_startup, as text
Greeting == <<"a">>

\* what a task of route() makes process_input do: think(), a coming-soon message,
\* do_save_and_exit, or (a valid task that no branch names, as "exit now") think()
TaskKinds == {"general", "coming_soon", "exit", "other"}

\* the lists route() can return: one task for each comma-separated part of the
\* classifier's line that starts with a valid name, never an empty list; here every
\* list of one task, and the lists of two general or coming-soon tasks
RouterLists == [1..1 -> TaskKinds] \cup [1..2 -> {"general", "coming_soon"}]

InputInit ==
    /\ Fresh
    /\ conversation_history = <<>>
    /\ pc = "greet"
    /\ full_response = <<>>

\* what the steps of main.py outside think() leave alone
inputFrame == <<current_model_index, hist, aliased, model_name, attempt, ai_response,
                displayed, nCalls, nLoads, nextId, transcript, callLog, sleepLog, advances,
                startCursor, waitTimedOut, streamVars, histBefore, interrupted,
                failed_attempts, messages, saveVars>>

\* greet_on_startup: tts_file, tts_ready = start_tts_generation(greeting)
GreetStartTts ==
    /\ pc = "greet"
    /\ \E outcome \in {"started", "no_tempfile", "no_thread"} :
          CASE outcome = "started" ->
                 /\ tts_job' = "job"
                 /\ tts_ready' = FALSE
                 /\ fileState' = "empty"
                 /\ synthPc' = "running"
            [] outcome = "no_tempfile" ->
                 /\ tts_job' = "None"
                 /\ UNCHANGED <<tts_ready, fileState, synthPc>>
            [] outcome = "no_thread" ->
                 /\ tts_job' = "None"
                 /\ fileState' = "empty"
                 /\ UNCHANGED <<tts_ready, synthPc>>
    /\ tts_text' = Greeting
    /\ pc' = "greet_wait"
    /\ UNCHANGED <<conversation_history, playPc, playResult, saved, userTurn, inputVars,
                   inputFrame>>

\* tts_ready.wait(timeout=10) returns, set or timed out; the audio thread is started
GreetWaitReady ==
    /\ pc = "greet_wait"
    /\ tts_job = "job"
    /\ playPc' = "wait"
    /\ pc' = "greet_display"
    /\ UNCHANGED <<conversation_history, ttsVars, playResult, saved, userTurn, tts_text,
                   inputVars, inputFrame>>

\* tts_ready is None: the AttributeError leaves greet_on_startup and main()
GreetWaitNone ==
    /\ pc = "greet_wait"
    /\ tts_job = "None"
    /\ pc' = "exited"
    /\ UNCHANGED <<conversation_history, ttsVars, playPc, playResult, saved, userTurn,
                   tts_text, inputVars, inputFrame>>

\* slow_display(greeting)
GreetDisplay ==
    /\ pc = "greet_display"
    /\ pc' = "greet_join"
    /\ UNCHANGED <<conversation_history, ttsVars, playPc, playResult, saved, userTurn,
                   tts_text, inputVars, inputFrame>>

\* audio_thread.join(); main() enters its loop
GreetJoin ==
    /\ pc = "greet_join"
    /\ Joined(playPc)
    /\ pc' = "idle"
    /\ UNCHANGED <<conversation_history, ttsVars, playPc, playResult, saved, userTurn,
                   tts_text, inputVars, inputFrame>>

\* process_input(user_text): no trigger matches; tasks = route(user_text)
Route ==
    /\ pc = "idle"
    /\ tasks = <<>>
    /\ \E list \in RouterLists : tasks' = list
    /\ handled' = <<>>
    /\ userTurn' = Turn("user", <<nextId, Utterance>>)
    /\ UNCHANGED <<conversation_history, pc, ttsVars, playPc, playResult, saved, tts_text,
                   inputFrame>>

\* an exit trigger in the utterance: do_save_and_exit, as for a routed exit task
ExitTrigger ==
    /\ pc = "idle"
    /\ tasks = <<>>
    /\ tasks' = <<"exit">>
    /\ handled' = <<>>
    /\ pc' = "speak"
    /\ UNCHANGED <<conversation_history, ttsVars, playPc, playResult, saved, userTurn,
                   tts_text, inputFrame>>

\* task.startswith("general"), or the fallback branch:
\* ai_response, conversation_history = think(user_text, conversation_history, groq_client)
TaskThink ==
    /\ pc = "idle"
    /\ tasks # <<>>
    /\ Head(tasks) \in {"general", "other"}
    /\ nCalls < MaxCalls
    /\ LET appended == Append(conversation_history, userTurn)
       IN /\ conversation_history' = appended
          /\ hist' = Trim(appended)
          /\ aliased' = ~TrimNeeded(appended)
          /\ transcript' = Append(transcript, userTurn)
    /\ histBefore' = conversation_history
    /\ nextId' = IF nextId = userTurn.parts[1] THEN nextId + 1 ELSE nextId
    /\ nCalls' = nCalls + 1
    /\ handled' = Append(handled, "think")
    /\ tasks' = Tail(tasks)
    /\ pc' = "while"
    /\ tts_job' = "unset"
    /\ playPc' = "none"
    /\ playResult' = "none"
    /\ displayed' = 0
    /\ stream' = <<>>
    /\ streamPos' = 0
    /\ full_response' = <<>>
    /\ clean_response' = <<>>
    /\ tts_text' = <<>>
    /\ messages' = <<>>
    /\ callLog' = <<>>
    /\ sleepLog' = <<>>
    /\ advances' = 0
    /\ startCursor' = current_model_index
    /\ waitTimedOut' = FALSE
    /\ UNCHANGED <<current_model_index, model_name, attempt, ai_response, tts_ready,
                   fileState, synthPc, nLoads, saved, interrupted, failed_attempts,
                   userTurn, saveVars>>

\* task == "exit": do_save_and_exit; a coming-soon task: handle_coming_soon; both
\* begin with speak(message, display=True)
TaskSpeak ==
    /\ pc = "idle"
    /\ tasks # <<>>
    /\ Head(tasks) \in {"exit", "coming_soon"}
    /\ pc' = "speak"
    /\ UNCHANGED <<conversation_history, ttsVars, playPc, playResult, saved, userTurn,
                   tts_text, inputVars, inputFrame>>

\* speak() returns to its caller: do_save_and_exit saves the history and process_input
\* returns True, which ends main(); handle_coming_soon returns to the task loop
SpeakReturn(result) ==
    /\ handled' = Append(handled, result)
    /\ IF Head(tasks) = "exit"
       THEN /\ saved' = Append(saved, conversation_history)
            /\ pc' = "exited"
            /\ UNCHANGED tasks
       ELSE /\ tasks' = Tail(tasks)
            /\ pc' = "idle"
            /\ UNCHANGED saved

\* speak(): the speech is generated, loaded and played; an exception of any of these
\* is printed and speak() returns
SpeakPlay ==
    /\ pc = "speak"
    /\ \E ok \in BOOLEAN :
          IF ok
          THEN /\ pc' = "speaking"
               /\ UNCHANGED <<saved, inputVars, saveVars>>
          ELSE SpeakReturn("speech_failed")
    /\ UNCHANGED <<conversation_history, ttsVars, playPc, playResult, userTurn, tts_text,
                   inputFrame>>

\* speak(): get_busy() turns false, or Ctrl+C stops the music; unload, unlink, return
SpeakEnd ==
    /\ pc = "speaking"
    /\ SpeakReturn("spoken")
    /\ UNCHANGED <<conversation_history, ttsVars, playPc, playResult, userTurn, tts_text,
                   inputFrame>>

Greet == GreetStartTts \/ GreetWaitReady \/ GreetWaitNone \/ GreetDisplay \/ GreetJoin

ProcessInput == Route \/ ExitTrigger \/ TaskThink \/ TaskSpeak \/ SpeakPlay \/ SpeakEnd

InputNext ==
    \/ Greet
    \/ ProcessInput
    \/ InTurn
    \/ SynthThread
    \/ PlayThread

InputSpec == InputInit /\ [][InputNext]_vars

TypeOK ==
    /\ current_model_index \in 0..NumModels
    /\ pc \in {"idle", "while", "call", "stream", "sleep", "tts", "wait", "display",
               "join", "interrupted", "exited", "clean", "cleaned", "recleaned",
               "menu", "voice", "text", "greet", "greet_wait", "greet_display",
               "greet_join", "speak", "speaking", "save", "unsaved", "pairing",
               "written", "loaded"}
    /\ model_name \in 0..(NumModels - 1)
    /\ attempt \in 0..(max_retries - 1)
    /\ ai_response \in {"none", ReplyMsg, TroubleMsg, ExhaustedMsg}
    /\ tts_job \in {"unset", "job", "None"}
    /\ tts_ready \in BOOLEAN
    /\ fileState \in {"none", "empty", "partial", "audio", "deleted"}
    /\ synthPc \in {"none", "running", "done", "failed"}
    /\ playPc \in {"none", "wait", "check", "playing", "done"}
    /\ playResult \in {"none", "noop", "played", "error"}
    /\ streamPos \in 0..Len(stream)
    /\ displayed \in 0..Len(clean_response)
    /\ interrupted \in BOOLEAN
    /\ failed_attempts \in 0..max_failed_attempts
    /\ Len(messages) <= MAX_HISTORY + 1
    /\ msg_i \in 0..MAX_HISTORY
    /\ Len(chat_data) <= MAX_HISTORY
    /\ Len(loaded_history) <= MAX_HISTORY
    /\ \E list \in RouterLists \cup {<<>>} : IsSuffix(tasks, list)
    /\ \A k \in 1..Len(handled) : handled[k] \in {"think", "spoken", "speech_failed"}

\* ------------------------------------------------------------------ claims
Range(f) == {f[i] : i \in DOMAIN f}

\* positions of the call log at which endpoint i was invoked
CallsTo(i) == {k \in 1..Len(callLog) : callLog[k].idx = i}

\* positions of the sleep log at which the retry loop of endpoint i paused
SleepsFor(i) == {k \in 1..Len(sleepLog) : sleepLog[k].idx = i}

Returned == pc = "idle" /\ nCalls > 0

\* C1: an endpoint that rate-limits every call of one think() is invoked exactly
\* max_retries times with max_retries - 1 pauses of strictly increasing length in
\* between, the cursor moves past it only after the last of these failures, and an
\* endpoint that answered a call leaves the cursor where it was.
C1_RetryThenAdvance ==
    \A i \in 0..(NumModels - 1) :
        /\ Cardinality(CallsTo(i)) <= max_retries
        /\ (i >= startCursor /\ current_model_index > i) =>
               /\ Cardinality(CallsTo(i)) = max_retries
               /\ \A k \in CallsTo(i) : callLog[k].res = "rate_limit"
               /\ Cardinality(SleepsFor(i)) = max_retries - 1
               /\ \A j, k \in SleepsFor(i) :
                      j < k => sleepLog[j].secs < sleepLog[k].secs
        /\ (\E k \in CallsTo(i) : callLog[k].res = "ok") =>
               /\ current_model_index = i
               /\ advances = i - startCursor

C1_Witness ==
    /\ current_model_index = 1
    /\ startCursor = 0
    /\ Len(callLog) = max_retries
    /\ Len(sleepLog) = max_retries - 1
    /\ advances = 1

\* C2: a think() that starts at cursor 0 and meets only rate limits makes
\* len(MODELS) * max_retries endpoint calls, advances the cursor len(MODELS) times,
\* returns the exhausted message and a history without its own user turn.
C2_ChainExhaustion ==
    ( /\ Returned
      /\ startCursor = 0
      /\ callLog # <<>>
      /\ \A k \in 1..Len(callLog) : callLog[k].res = "rate_limit" ) =>
        /\ Len(callLog) = NumModels * max_retries
        /\ \A i \in 0..(NumModels - 1) : Cardinality(CallsTo(i)) = max_retries
        /\ advances = NumModels
        /\ current_model_index = NumModels
        /\ ai_response = ExhaustedMsg
        /\ userTurn \notin Range(conversation_history)

C2_Witness ==
    /\ Returned
    /\ startCursor = 0
    /\ Len(callLog) = NumModels * max_retries
    /\ ai_response = ExhaustedMsg
    /\ advances = NumModels

\* C3: an endpoint call that fails with an error other than a rate limit is the last
\* call of its think(), which has returned the trouble message with the cursor still
\* at the endpoint that failed and without its user turn in the history.
C3_OtherErrorAborts ==
    \A k \in 1..Len(callLog) :
        callLog[k].res = "other" =>
            /\ k = Len(callLog)
            /\ pc = "idle"
            /\ ai_response = TroubleMsg
            /\ current_model_index = callLog[k].idx
            /\ userTurn \notin Range(conversation_history)

C3_Witness ==
    /\ Len(callLog) > 1
    /\ callLog[Len(callLog)].res = "other"
    /\ callLog[Len(callLog)].idx > 0
    /\ ai_response = TroubleMsg
    /\ pc = "idle"

\* C4: the cursor never decreases, stays within 0..len(MODELS), and every endpoint
\* call goes to an endpoint that is not below the cursor.
C4_CursorMonotonic ==
    [][ /\ current_model_index' >= current_model_index
        /\ current_model_index' \in 0..NumModels
        /\ (callLog' # callLog /\ callLog' # <<>>) =>
               callLog'[Len(callLog')].idx >= current_model_index ]_vars

C4_Witness ==
    /\ nCalls >= 2
    /\ current_model_index = 2
    /\ startCursor = 2
    /\ callLog # <<>>
    /\ callLog[Len(callLog)].idx = 2

\* C5: once the cursor equals len(MODELS) it stays there, no endpoint is called, no
\* speech job, playback or display is started, and a think() that returns returns the
\* exhausted message.
C5_ExhaustedStaysExhausted ==
    [][ current_model_index = NumModels =>
          /\ current_model_index' = NumModels
          /\ Len(callLog') <= Len(callLog)
          /\ pc' \in {"idle", "while"}
          /\ tts_job' \in {tts_job, "unset"}
          /\ playPc' \in {playPc, "none"}
          /\ displayed' \in {displayed, 0}
          /\ (pc # "idle" /\ pc' = "idle") => ai_response' = ExhaustedMsg ]_vars

C5_Witness ==
    /\ current_model_index = NumModels
    /\ Returned
    /\ nCalls >= 2
    /\ startCursor = NumModels
    /\ callLog = <<>>
    /\ tts_job = "unset"
    /\ ai_response = ExhaustedMsg

\* C6: the history a think() returns has at most 20 turns, and they are the most
\* recent turns of the conversation in their original order.
C6_WindowBound ==
    pc = "idle" =>
        /\ Len(conversation_history) <= MAX_HISTORY
        /\ IsSuffix(conversation_history, transcript)

\* C7: a think() that returns a reply has joined the playback thread and has
\* displayed the whole reply.
C7_ReturnAfterBoth ==
    (Returned /\ ai_response = ReplyMsg) =>
        /\ playPc = "done"
        /\ displayed = Len(clean_response)

C7_Witness ==
    /\ Returned
    /\ ai_response = ReplyMsg
    /\ playPc = "done"
    /\ displayed = Len(clean_response)
    /\ synthPc = "done"
    /\ fileState = "deleted"

\* C8: when the wait for the speech job times out, the turn still completes: the
\* whole reply is displayed, think() returns it and the assistant turn is the last
\* turn of the history.
C8_TimeoutStillDelivers ==
    waitTimedOut ~>
        ( /\ pc = "idle"
          /\ ai_response = ReplyMsg
          /\ displayed = Len(clean_response)
          /\ conversation_history # <<>>
          /\ Last(conversation_history).role = "model" )

C8_Witness ==
    /\ waitTimedOut
    /\ pc = "idle"
    /\ ai_response = ReplyMsg
    /\ displayed = Len(clean_response)
    /\ Last(conversation_history).role = "model"

\* C9: a started synthesis thread always ends with the readiness event set, whether
\* synthesis succeeded or raised.
C9_ReadyEventuallySet ==
    (synthPc = "running") ~> (tts_ready /\ synthPc \in {"done", "failed"})

C9_Witness ==
    /\ synthPc = "failed"
    /\ tts_ready

\* C10: whenever the endpoint stream completed, think() returns the reply, displayed
\* and appended as the assistant turn, whatever happens to speech synthesis.
C10_SynthesisNeverFailsTurn ==
    ( /\ Returned
      /\ callLog # <<>>
      /\ callLog[Len(callLog)].res = "ok" ) =>
        /\ ai_response = ReplyMsg
        /\ displayed = Len(clean_response)
        /\ conversation_history # <<>>
        /\ Last(conversation_history).role = "model"

\* C11: when play_pregenerated reaches its file check after synthesis has failed, it
\* does nothing: it attempts no load, reports no error and leaves the file alone.
C11_FailedSynthesisNoOp ==
    [][ ( /\ playPc = "check"
          /\ synthPc = "failed"
          /\ playPc' # "check" ) =>
            /\ playResult' = "noop"
            /\ playPc' = "done" ]_vars

\* C12: the sanitizer applied to its own output returns that output.
C12_Idempotent ==
    pc = "recleaned" => clean_response = full_response

\* the punctuation the claim lists: , . ! ? ' " - :
Punctuation == {",", ".", "!", "?", "'", "\"", "-", ":"}

\* alphanumeric, whitespace or listed punctuation
Allowed(c) == c = "a" \/ IsSpace(c) \/ c \in Punctuation

\* C13: every character of the sanitizer's output is alphanumeric, whitespace or one
\* of the listed punctuation marks.
C13_AllowList ==
    pc \in {"cleaned", "recleaned"} =>
        \A i \in 1..Len(clean_response) : Allowed(clean_response[i])

\* C14: the sanitizer's output has no two whitespace characters in a row.
C14_SingleSpaces ==
    pc \in {"cleaned", "recleaned"} =>
        \A i \in 1..(Len(clean_response) - 1) :
            ~(IsSpace(clean_response[i]) /\ IsSpace(clean_response[i + 1]))

Markup == {"*", "#", "_", "backtick", "[", "]"}

\* C15: no markup character is left in the sanitizer's output, and a link [a](url)
\* comes out as its label a.
C15_MarkupRemoved ==
    pc = "cleaned" =>
        /\ \A i \in 1..Len(clean_response) : clean_response[i] \notin Markup
        /\ full_response \in LinkTexts => clean_response = <<"a">>

\* something of the current turn's reply has been sanitized, synthesized, displayed,
\* played, returned or appended to the history
Delivered ==
    \/ pc \in {"tts", "wait", "display", "join"}
    \/ clean_response # <<>>
    \/ tts_job # "unset"
    \/ playPc # "none"
    \/ displayed > 0
    \/ pc = "idle" /\ ai_response = ReplyMsg
    \/ /\ conversation_history # <<>>
       /\ Last(conversation_history).role = "model"
       /\ Last(conversation_history).parts[1] = userTurn.parts[1] + 1

\* C16: text is sanitized, synthesized, displayed, played, returned or appended only
\* when the last stream was read to its end without an error, and then it is the
\* text of the whole stream: the tokens of a stream that raised go nowhere.
C16_PartialTextDiscarded ==
    Delivered =>
        /\ callLog # <<>>
        /\ Last(callLog).res = "ok"
        /\ full_response = Assemble(stream, Len(stream))
        /\ clean_response = clean_text_for_speech(full_response)

C16_Witness ==
    /\ pc = "idle"
    /\ Len(callLog) = 1
    /\ callLog[1].res = "other"
    /\ streamPos > 0
    /\ full_response # <<>>
    /\ ai_response = TroubleMsg
    /\ ~Delivered

C18_ThinkNeverRaises ==
    /\ pc # "raised"
    /\ Returned => ai_response \in {ReplyMsg, TroubleMsg, ExhaustedMsg}

C18_Witness ==
    /\ Returned
    /\ ai_response = TroubleMsg
    /\ tts_job = "None"
    /\ callLog # <<>>
    /\ Last(callLog).res = "ok"

\* C19: a turn that ended with the trouble message or the exhausted message has
\* shown or spoken that message to the user.
C19_FallbackPresented ==
    (Returned /\ ai_response \in {TroubleMsg, ExhaustedMsg}) =>
        \/ displayed > 0
        \/ playResult = "played"

\* C20: when the process has ended after an interrupt during a turn, no playback is
\* left in flight and the temporary audio file is gone.
C20_InterruptCleansUp ==
    pc = "exited" =>
        /\ playPc # "playing"
        /\ ~FileExists(fileState)

\* C21: a Ctrl+C during think() is never turned into a retry, an endpoint switch or
\* a returned message: it reaches main(), and when the process has ended the history
\* main() holds has been handed to save_chat_history.
C21_InterruptPropagates ==
    interrupted =>
        /\ pc \in {"interrupted", "exited"}
        /\ pc = "exited" => saved = <<conversation_history>>

C21_Witness ==
    /\ interrupted
    /\ pc = "exited"
    /\ saved = <<conversation_history>>
    /\ conversation_history # <<>>
    /\ sleepLog # <<>>

\* C22: once think() has returned and no synthesis or playback thread is running, the
\* temporary file of the turn does not exist.
C22_ArtifactReleased ==
    ( /\ Returned
      /\ synthPc # "running"
      /\ playPc \in {"none", "done"} ) =>
        ~FileExists(fileState)

\* C23: play_pregenerated goes past its file check to load, play or delete the file
\* only when the synthesis thread has ended and has set the readiness event.
C23_HandoffWithoutOverlap ==
    [][ ( /\ playPc = "check"
          /\ playPc' # "check"
          /\ FileExists(fileState) ) =>
            /\ synthPc \in {"done", "failed"}
            /\ tts_ready ]_vars

\* C24: when think() has returned, neither the synthesis thread nor the playback
\* thread is still running.
C24_TasksEndWithTurn ==
    Returned =>
        /\ synthPc # "running"
        /\ playPc \in {"none", "done"}

\* C25: display and playback start only after the whole stream was assembled,
\* sanitized once and handed to start_tts_generation, which started the synthesis;
\* the text handed to synthesis is the text that is displayed.
C25_DeliveryOrder ==
    /\ tts_job # "unset" =>
          /\ Last(callLog).res = "ok"
          /\ full_response = Assemble(stream, Len(stream))
          /\ clean_response = clean_text_for_speech(full_response)
          /\ tts_text = clean_response
    /\ (pc \in {"display", "join"} \/ displayed > 0 \/ playPc # "none") =>
          /\ tts_job = "job"
          /\ synthPc # "none"

C25_Witness ==
    /\ pc = "display"
    /\ displayed = 0
    /\ synthPc = "running"
    /\ full_response = <<"a", " ", ";">>
    /\ tts_text = <<"a", " ">>

\* the tokens of a stream that carry text
NonEmpty(token) == token # <<>>

\* the concatenation of a sequence of tokens, in order
RECURSIVE Concat(_)
Concat(tokens) ==
    IF tokens = <<>> THEN <<>> ELSE Head(tokens) \o Concat(Tail(tokens))

\* C26: while a stream is read and after it has ended, full_response is the
\* concatenation in arrival order of the non-empty tokens received, and the call
\* counts as a success exactly when the stream was read to its end.
C26_TokensConcatenated ==
    callLog # <<>> =>
        /\ Last(callLog).res \in {"open", "ok"} =>
              full_response =
                  Concat(SelectSeq(SubSeq(stream, 1, streamPos), NonEmpty))
        /\ Last(callLog).res = "ok" => streamPos = Len(stream)
        /\ pc = "stream" => Last(callLog).res = "open"
        /\ pc \in {"tts", "wait", "display", "join"} => Last(callLog).res = "ok"

C26_Witness ==
    /\ callLog # <<>>
    /\ Last(callLog).res = "ok"
    /\ Len(stream) = 3
    /\ stream[2] = <<>>
    /\ full_response = <<"*", "*", "a", "*", "*">>

\* the pauses that precede position k of the sleep log for the same endpoint
EarlierSleeps(k) == {j \in SleepsFor(sleepLog[k].idx) : j < k}

\* C27: the pause after the k-th rate-limited attempt on an endpoint lasts exactly
\* wait_times[k] seconds, it lies between two calls to that endpoint, and the
\* countdown sleeps exactly w seconds for every w of the schedules of brain.py and
\* saiyaara.py.
C27_BackoffDuration ==
    /\ \A k \in 1..Len(sleepLog) :
          /\ sleepLog[k].secs = wait_times[Cardinality(EarlierSleeps(k)) + 1]
          /\ Cardinality(CallsTo(sleepLog[k].idx)) >=
                 Cardinality(EarlierSleeps(k)) + 1
    /\ \A i \in 0..(NumModels - 1) :
          Cardinality(CallsTo(i)) <= Cardinality(SleepsFor(i)) + 1
    /\ \A j \in 1..max_retries :
          /\ SleepLoop(wait_times[j], 0) = wait_times[j]
          /\ SleepLoop(SaiyaaraWaitTimes[j], 0) = SaiyaaraWaitTimes[j]

C27_Witness ==
    /\ pc = "call"
    /\ attempt = 2
    /\ Len(sleepLog) = 2
    /\ sleepLog[1].secs = 10
    /\ sleepLog[2].secs = 20
    /\ Len(callLog) = 2

\* C29: a think() that has started returns, and on its way it makes at most
\* (len(MODELS) - c) * max_retries endpoint calls, c being the cursor at its entry.
C29_ThinkTerminates ==
    /\ [](Len(callLog) <= (NumModels - startCursor) * max_retries)
    /\ (pc # "idle") ~> (pc = "idle")

C29_Witness ==
    /\ Returned
    /\ startCursor = 1
    /\ Len(callLog) = (NumModels - 1) * max_retries
    /\ current_model_index = NumModels
    /\ ai_response = ExhaustedMsg

\* C30: a think() that returns the trouble message or the exhausted message returns
\* the history it was called with.
C30_FailureLeavesHistory ==
    [][ ( /\ pc # "idle"
          /\ pc' = "idle"
          /\ ai_response' \in {TroubleMsg, ExhaustedMsg} ) =>
            conversation_history' = histBefore ]_vars

\* C28: in the menu program a quit word and an interrupt hand the history to
\* save_chat_history before it is cleared or the process ends, and the history is
\* empty whenever a session begins.
C28_SessionBoundary ==
    [][ /\ (pc \in {"voice", "text"} /\ conversation_history' # conversation_history
              /\ conversation_history' = <<>>) =>
                saved' = Append(saved, conversation_history)
        /\ (pc # "exited" /\ pc' = "exited") =>
                saved' = Append(saved, conversation_history)
        /\ (pc = "menu" /\ pc' \in {"voice", "text"}) =>
                conversation_history = <<>> ]_vars

\* C31: inside think() the only turn that enters the history is the assistant turn,
\* it enters as the last turn in the step that returns the reply, after slow_display
\* has shown the whole reply and the playback thread has ended, its text is the
\* sanitized text of the stream, and a think() that returns the trouble or the
\* exhausted message adds no turn to the history it was called with.
C31_AppendAfterDelivery ==
    [][pc # "idle" =>
         LET new == Range(conversation_history') \ Range(conversation_history)
         IN /\ \A t \in new :
                  /\ t.role = "model"
                  /\ pc = "join"
                  /\ displayed = Len(clean_response)
                  /\ playPc = "done"
                  /\ t.parts[2] = clean_text_for_speech(full_response)
                  /\ t = Last(conversation_history')
                  /\ ai_response' = ReplyMsg
            /\ (pc' = "idle" /\ ai_response' \in {TroubleMsg, ExhaustedMsg}) =>
                  /\ new = {}
                  /\ Range(conversation_history') \subseteq Range(histBefore)]_vars

C31_Witness ==
    /\ Returned
    /\ ai_response = ReplyMsg
    /\ full_response = <<"a", " ", ";">>
    /\ Len(conversation_history) = 2
    /\ conversation_history[2].role = "model"
    /\ conversation_history[2].parts[2] = <<"a", " ">>
    /\ displayed = 2
    /\ playResult = "played"

\* C32: once think() has called an endpoint, the request it built is the system
\* message followed by at most 20 turns, which are the last turns of the caller's
\* history and the new user utterance at the end, in their order and with their
\* roles; every later call of the same think(), a retry or a call to the next
\* endpoint, is made with the same request.
C32_RequestShape ==
    /\ [](callLog # <<>> =>
            LET sent == LastN(Append(histBefore, userTurn), Len(messages) - 1)
            IN /\ Len(messages) \in 2..(MAX_HISTORY + 1)
               /\ messages[1] = Message("system", system_prompt)
               /\ Last(messages) = Message("user", userTurn.parts)
               /\ Len(messages) - 1 = IF Len(histBefore) + 1 > MAX_HISTORY
                                      THEN MAX_HISTORY ELSE Len(histBefore) + 1
               /\ \A i \in 1..Len(sent) :
                     /\ messages[i + 1].content = sent[i].parts
                     /\ messages[i + 1].role =
                            IF sent[i].role = "user" THEN "user" ELSE "assistant")
    /\ [][(callLog # <<>> /\ Len(callLog') > Len(callLog)) =>
             messages' = messages]_vars

C32_Witness ==
    /\ Len(callLog) = max_retries + 1
    /\ Last(callLog).idx = callLog[1].idx + 1
    /\ Len(messages) = MAX_HISTORY + 1
    /\ Len(histBefore) = MAX_HISTORY
    /\ messages[2].content = histBefore[2].parts

\* every user turn of h is immediately followed by an assistant turn
Answered(h) ==
    \A i \in 1..Len(h) :
        h[i].role = "user" => (i < Len(h) /\ h[i + 1].role = "model")

\* C33: in a process that loaded no saved chat, every history handed to
\* save_chat_history has each of its user turns immediately followed by an assistant
\* turn, also when the save follows Ctrl+C pressed during a turn.
C33_SavedHistoryAnswered ==
    nLoads = 0 => \A k \in 1..Len(saved) : Answered(saved[k])

\* C34: while process_input handles one utterance, think() has been invoked for it at
\* most once and the utterance is in the conversation history at most once.
C34_OneThinkPerUtterance ==
    /\ Cardinality({k \in 1..Len(handled) : handled[k] = "think"}) <= 1
    /\ Cardinality({i \in 1..Len(conversation_history) :
                       conversation_history[i] = userTurn}) <= 1

\* C35: speak() never plays while a playback thread is playing, and a delivery (of the
\* greeting, of a reply) or a speak() begins only when the playback thread of the
\* delivery before it has ended: at most one playback is active at any time.
C35_OnePlayback ==
    /\ [](~(pc = "speaking" /\ playPc = "playing"))
    /\ [][/\ (playPc' # playPc /\ playPc' \in {"none", "wait"}) =>
                playPc \in {"none", "done"}
          /\ (pc' # pc /\ pc' \in {"speak", "while"}) =>
                playPc \in {"none", "done"}]_vars

C35_Witness ==
    /\ pc = "speaking"
    /\ tasks = <<"coming_soon">>
    /\ handled = <<"think">>
    /\ ai_response = ReplyMsg
    /\ playPc = "done"
    /\ playResult = "played"

\* what think() of saiyaara.py does from the cursor and the history the current
\* think() of brain.py began with, on the outcomes of the endpoint calls of that
\* think() and with the same assistant turn
Twin ==
    SaiyaaraThink(startCursor, histBefore, userTurn,
                  [k \in 1..Len(callLog) |-> callLog[k].res],
                  Turn("model", <<userTurn.parts[1] + 1, clean_response>>))

\* think() of brain.py and its twin made the same calls and left the same cursor and
\* the same history
SameAsTwin ==
    /\ Twin.calls = [k \in 1..Len(callLog) |-> callLog[k].idx]
    /\ Twin.cursor = current_model_index
    /\ Twin.history = conversation_history

\* C36: when think() of brain.py returns, think() of saiyaara.py fed the same
\* endpoint outcomes from the same cursor and history has called the same endpoints
\* in the same order, ends with the same cursor and leaves the same history.
C36_SameScheduler ==
    [][(pc # "idle" /\ pc' = "idle") => SameAsTwin']_vars

\* C37: for a history of at most MAX_HISTORY turns with the roles user and model in
\* any order, every pass of the pairing loop of save_chat_history moves its index
\* forward and the loop ends, and the history rebuilt from the saved pairs has the
\* same turns with the same roles in the same order.
C37_SaveReloadPreserves ==
    /\ [][(pc = "pairing" /\ pc' = "pairing") =>
             (msg_i' > msg_i /\ msg_i' <= Len(conversation_history))]_vars
    /\ <>(pc \in {"unsaved", "loaded"})
    /\ [](pc = "loaded" => loaded_history = conversation_history)
    /\ [](pc = "unsaved" => conversation_history = <<>>)

C37_Witness ==
    /\ pc = "loaded"
    /\ Len(conversation_history) = MAX_HISTORY
    /\ conversation_history[1].role = "model"
    /\ conversation_history[2].role = "user"
    /\ Len(chat_data) = MAX_HISTORY \div 2 + 1
    /\ loaded_history = conversation_history

====
